---- MODULE Spec2Model ----
(***************************************************************************)
(* Star-manipulation detector: final.py (analyze_repository and            *)
(* generate_verdict) and the interval_clustering.py script.                *)
(*                                                                         *)
(* Timestamps are whole minutes, so intervals_min holds integers.  Means,  *)
(* standard deviations, rates and Ward distances are kept as exact         *)
(* fractions (numerator/denominator or count/sum/sum of squares) and every *)
(* comparison the code makes on them is made on the fractions.             *)
(***************************************************************************)
EXTENDS Integers, Sequences, FiniteSets, TLC

(***************************************************************************)
(* Exact arithmetic helpers                                                *)
(***************************************************************************)
Abs(x) == IF x < 0 THEN -x ELSE x

Min(a, b) == IF a < b THEN a ELSE b

RECURSIVE FracLess(_, _, _, _)
\* a/b < c/d for a, c >= 0 and b, d > 0, by continued fractions (no products).
FracLess(a, b, c, d) ==
    LET qa == a \div b
        qc == c \div d
        ra == a % b
        rc == c % d
    IN  IF qa # qc THEN qa < qc
        ELSE IF rc = 0 THEN FALSE
        ELSE IF ra = 0 THEN TRUE
        ELSE FracLess(d, rc, b, ra)

RatLess(p, q) == FracLess(p.num, p.den, q.num, q.den)

RatLeq(p, q) == ~RatLess(q, p)

RECURSIVE SeqSum(_)
SeqSum(s) == IF s = <<>> THEN 0 ELSE Head(s) + SeqSum(Tail(s))

RECURSIVE SeqSumSq(_)
SeqSumSq(s) == IF s = <<>> THEN 0 ELSE Head(s) * Head(s) + SeqSumSq(Tail(s))

RECURSIVE Insert(_, _)
Insert(x, s) ==
    IF s = <<>> THEN <<x>>
    ELSE IF x < Head(s) THEN <<x>> \o s
    ELSE <<Head(s)>> \o Insert(x, Tail(s))

RECURSIVE sorted(_)
\* sorted(list): ascending
sorted(s) == IF s = <<>> THEN <<>> ELSE Insert(Head(s), sorted(Tail(s)))

RECURSIVE Gaps(_, _)
Gaps(times, out) ==
    IF Len(out) + 1 >= Len(times) THEN out
    ELSE Gaps(times, Append(out, times[Len(out) + 2] - times[Len(out) + 1]))

\* intervals[i] = times[i+1] - times[i] (minutes), for the sorted times
Intervals(times) == Gaps(times, <<>>)

(***************************************************************************)
(* scipy.cluster.hierarchy.linkage(X, method='ward') on 1-D observations.  *)
(* A cluster is [n |-> size, s |-> sum of members].  The Lance-Williams    *)
(* Ward update started from Euclidean distances keeps                      *)
(*   d(A,B)^2 = 2|A||B|/(|A|+|B|) * (mean A - mean B)^2,                   *)
(* which is what WardD2 returns as a fraction.  Distances are compared     *)
(* through their squares.                                                  *)
(***************************************************************************)
WardD2(A, B) ==
    [num |-> 2 * (B.n * A.s - A.n * B.s) * (B.n * A.s - A.n * B.s),
     den |-> A.n * B.n * (A.n + B.n)]

RECURSIVE ScanNearest(_, _, _, _, _)
\* the inner "for i in range(n)" of nn_chain: y = 0 stands for current_min = inf
ScanNearest(cl, x, i, y, cur) ==
    IF i > Len(cl) THEN y
    ELSE IF cl[i].n = 0 \/ i = x THEN ScanNearest(cl, x, i + 1, y, cur)
    ELSE LET d == WardD2(cl[x], cl[i])
         IN  IF y = 0 \/ RatLess(d, cur)
             THEN ScanNearest(cl, x, i + 1, i, d)
             ELSE ScanNearest(cl, x, i + 1, y, cur)

RECURSIVE GrowChain(_, _)
\* follow nearest neighbours until two clusters are mutually nearest
GrowChain(cl, chain) ==
    LET L == Len(chain)
        x == chain[L]
        prev == IF L > 1 THEN chain[L - 1] ELSE 0
        cur == IF L > 1 THEN WardD2(cl[x], cl[prev]) ELSE [num |-> 0, den |-> 1]
        y == ScanNearest(cl, x, 1, prev, cur)
    IN  IF L > 1 /\ y = prev THEN chain ELSE GrowChain(cl, Append(chain, y))

FirstActive(cl) == CHOOSE i \in 1..Len(cl) : cl[i].n > 0 /\ \A j \in 1..(i - 1) : cl[j].n = 0

RECURSIVE NNChain(_, _, _)
\* the n-1 merges in the order the chain finds them: rows [x, y, d2] with x < y
NNChain(cl, chain, Z) ==
    IF Len(Z) = Len(cl) - 1 THEN Z
    ELSE LET start == IF chain = <<>> THEN <<FirstActive(cl)>> ELSE chain
             ch == GrowChain(cl, start)
             L == Len(ch)
             a == ch[L]
             b == ch[L - 1]
             x == Min(a, b)
             y == IF a < b THEN b ELSE a
             merged == [n |-> cl[x].n + cl[y].n, s |-> cl[x].s + cl[y].s]
             cl2 == [cl EXCEPT ![x] = [n |-> 0, s |-> 0], ![y] = merged]
         IN  NNChain(cl2, SubSeq(ch, 1, L - 2),
                     Append(Z, [x |-> x, y |-> y, d2 |-> WardD2(cl[a], cl[b])]))

RECURSIVE InsertRow(_, _)
\* stable: a row goes after every row whose distance is not larger
InsertRow(s, r) ==
    IF s = <<>> THEN <<r>>
    ELSE IF RatLess(r.d2, Head(s).d2) THEN <<r>> \o s
    ELSE <<Head(s)>> \o InsertRow(Tail(s), r)

RECURSIVE SortRows(_, _)
\* np.argsort(Z[:, 2], kind='mergesort')
SortRows(done, rest) ==
    IF rest = <<>> THEN done ELSE SortRows(InsertRow(done, Head(rest)), Tail(rest))

RECURSIVE Renamed(_, _, _, _, _)
\* union-find merge: every point of cluster xr or yr now belongs to cluster new
Renamed(comp, xr, yr, new, out) ==
    IF Len(out) = Len(comp) THEN out
    ELSE LET c == comp[Len(out) + 1]
         IN  Renamed(comp, xr, yr, new, Append(out, IF c = xr \/ c = yr THEN new ELSE c))

RECURSIVE LabelRows(_, _, _, _)
\* label(): union-find renaming; row i creates cluster n + i, smaller root left
LabelRows(rows, i, comp, out) ==
    IF i > Len(rows) THEN out
    ELSE LET n == Len(comp)
             xr == comp[rows[i].x]
             yr == comp[rows[i].y]
         IN  LabelRows(rows, i + 1, Renamed(comp, xr, yr, n + i, <<>>),
                       Append(out, [left |-> Min(xr, yr),
                                    right |-> IF xr < yr THEN yr ELSE xr,
                                    d2 |-> rows[i].d2]))

RECURSIVE Singletons(_, _)
\* one cluster per observation
Singletons(X, out) ==
    IF Len(out) = Len(X) THEN out
    ELSE Singletons(X, Append(out, [n |-> 1, s |-> X[Len(out) + 1]]))

RECURSIVE Iota(_, _)
\* <<1, ..., n>>
Iota(n, out) == IF Len(out) = n THEN out ELSE Iota(n, Append(out, Len(out) + 1))

\* linkage_matrix: rows i = 1..n-1 create cluster n+i from clusters left, right
linkage(X) ==
    LET rows == SortRows(<<>>, NNChain(Singletons(X, <<>>), <<>>, <<>>))
    IN  LabelRows(rows, 1, Iota(Len(X), <<>>), <<>>)

(***************************************************************************)
(* scipy.cluster.hierarchy.fcluster(Z, t, criterion='maxclust')            *)
(***************************************************************************)
RECURSIVE MaxDists(_, _)
\* get_max_dist_for_each_cluster: MC[i] = largest distance in the subtree of row i
MaxDists(Z, MC) ==
    IF Len(MC) = Len(Z) THEN MC
    ELSE LET n == Len(Z) + 1
             r == Z[Len(MC) + 1]
             m1 == IF r.left > n /\ RatLess(r.d2, MC[r.left - n]) THEN MC[r.left - n] ELSE r.d2
             m2 == IF r.right > n /\ RatLess(m1, MC[r.right - n]) THEN MC[r.right - n] ELSE m1
         IN  MaxDists(Z, Append(MC, m2))

\* mutant: a subtree at exactly the threshold is not taken as a cluster
DistLess(d, thresh) == thresh.num >= 0 /\ RatLess(d, thresh)

\* MC[root] <= thresh; a threshold with a negative numerator is below every distance
\* (it also stands for NaN, against which every comparison is false)
DistLeq(d, thresh) == thresh.num >= 0 /\ RatLeq(d, thresh)

RECURSIVE NumClusters(_, _, _, _)
\* number of flat clusters under node when cutting at thresh
NumClusters(Z, MC, thresh, node) ==
    LET n == Len(Z) + 1
    IN  IF node <= n THEN 1
        ELSE IF DistLeq(MC[node - n], thresh) THEN 1
        ELSE NumClusters(Z, MC, thresh, Z[node - n].left)
             + NumClusters(Z, MC, thresh, Z[node - n].right)

RECURSIVE MaxclustSearchLower(_, _, _, _, _)
\* mutant: the search returns the last index whose cut has more than max_nc clusters
MaxclustSearchLower(Z, MC, max_nc, lower_idx, upper_idx) ==
    IF upper_idx - lower_idx > 1
    THEN LET i == (lower_idx + upper_idx) \div 2
             nc == NumClusters(Z, MC, MC[i + 1], 2 * Len(Z) + 1)
         IN  IF nc > max_nc
             THEN MaxclustSearchLower(Z, MC, max_nc, i, upper_idx)
             ELSE MaxclustSearchLower(Z, MC, max_nc, lower_idx, i)
    ELSE lower_idx

RECURSIVE MaxclustSearch(_, _, _, _, _)
\* cluster_maxclust_monocrit: binary search over the (0-based) indices of MC,
\* returns upper_idx
MaxclustSearch(Z, MC, max_nc, lower_idx, upper_idx) ==
    IF upper_idx - lower_idx > 1
    THEN LET i == (lower_idx + upper_idx) \div 2
             nc == NumClusters(Z, MC, MC[i + 1], 2 * Len(Z) + 1)
         IN  IF nc > max_nc
             THEN MaxclustSearch(Z, MC, max_nc, i, upper_idx)
             ELSE MaxclustSearch(Z, MC, max_nc, lower_idx, i)
    ELSE upper_idx

RECURSIVE Monocrit(_, _, _, _, _, _)
\* cluster_monocrit: depth-first numbering of the flat clusters; st = [k, T]
Monocrit(Z, MC, cutoff, node, inside, st) ==
    LET n == Len(Z) + 1
        r == Z[node - n]
        lead == ~inside /\ DistLeq(MC[node - n], cutoff)
        in2 == inside \/ lead
        s0 == IF lead THEN [st EXCEPT !.k = @ + 1] ELSE st
        s1 == IF r.left > n THEN Monocrit(Z, MC, cutoff, r.left, in2, s0) ELSE s0
        s2 == IF r.right > n THEN Monocrit(Z, MC, cutoff, r.right, in2, s1) ELSE s1
        k3 == IF in2 THEN s2.k ELSE s2.k + 1
        s3 == IF r.left <= n THEN [k |-> k3, T |-> [s2.T EXCEPT ![r.left] = k3]] ELSE s2
        k4 == IF in2 THEN s3.k ELSE s3.k + 1
        s4 == IF r.right <= n THEN [k |-> k4, T |-> [s3.T EXCEPT ![r.right] = k4]] ELSE s3
    IN  s4

\* The thresholds the cut can use.  The search ends on MC[upper_idx]; MC is
\* allocated with n entries of which get_max_dist_for_each_cluster fills n-1, so
\* with upper_idx = n-1 (only when no tested cut has at most t clusters, i.e.
\* t < 1, or when there is a single merge) the threshold is an uninitialised
\* double: any value.
Cutoffs(Z, t) ==
    LET n == Len(Z) + 1
        MC == MaxDists(Z, <<>>)
        upper_idx == MaxclustSearch(Z, MC, t, 0, n - 1)
    IN  IF upper_idx < n - 1 THEN {MC[upper_idx + 1]}
        ELSE {MC[i] : i \in 1..(n - 1)} \cup {[num |-> -1, den |-> 1]}

\* flat cluster labels T for one threshold
CutAt(Z, cutoff) ==
    LET n == Len(Z) + 1
    IN  Monocrit(Z, MaxDists(Z, <<>>), cutoff, 2 * n - 1, FALSE,
                 [k |-> 0, T |-> [p \in 1..n |-> 0]]).T

\* every label vector fcluster(Z, t, 'maxclust') can return
fcluster(Z, t) == {CutAt(Z, c) : c \in Cutoffs(Z, t)}

\* max_clusters = min(8, len(intervals) // 10)
MaxClusterCap == 8

MaxClusters(n) == Min(MaxClusterCap, n \div 10)

(***************************************************************************)
(* cluster_info and sorted_clusters.  A record keeps count, mean and var   *)
(* (np.std squared) as fractions, and percentage = count / len * 100.      *)
(***************************************************************************)
Members(clusters, cid) == {i \in DOMAIN clusters : clusters[i] = cid}

RECURSIVE SetSum(_, _)
SetSum(f, S) == IF S = {} THEN 0 ELSE LET i == CHOOSE j \in S : TRUE IN f[i] + SetSum(f, S \ {i})

ClusterRecord(X, M) ==
    LET c == Cardinality(M)
        s == SetSum(X, M)
        q == SetSum([i \in DOMAIN X |-> X[i] * X[i]], M)
    IN  [count |-> c,
         mean |-> [num |-> s, den |-> c],
         var |-> [num |-> c * q - s * s, den |-> c * c],
         percentage |-> [num |-> c * 100, den |-> Len(X)]]

\* mutant: range(1, max_clusters), the last cluster id is never recorded
ClusterInfoShortRange(X, clusters, max_clusters) ==
    [cid \in {c \in 1..(max_clusters - 1) : Members(clusters, c) # {}}
        |-> ClusterRecord(X, Members(clusters, cid))]

\* for cid in range(1, max_clusters + 1): if len(cluster_data) > 0: cluster_info[cid] = ...
ClusterInfo(X, clusters, max_clusters) ==
    [cid \in {c \in 1..max_clusters : Members(clusters, c) # {}}
        |-> ClusterRecord(X, Members(clusters, cid))]

RECURSIVE SortedClusters(_, _)
\* sorted(cluster_info.items(), key=count, reverse=True): stable, ids ascending among ties
SortedClusters(info, ids) ==
    IF ids = {} THEN <<>>
    ELSE LET best == CHOOSE c \in ids :
                        \A d \in ids : info[c].count > info[d].count
                                       \/ (info[c].count = info[d].count /\ c <= d)
         IN  <<[cid |-> best, info |-> info[best]]>> \o SortedClusters(info, ids \ {best})

\* std < k
StdLess(rec, k) == FracLess(rec.var.num, rec.var.den, k * k, 1)

(***************************************************************************)
(* Inputs: what the GitHub API may answer.  Bounds of the model.           *)
(***************************************************************************)
\* most stargazers a response holds in the model (at least 20, so clustering runs)
MaxStargazers == 21

\* largest gap between two stars, in minutes
MaxGap == 40

StarsValues == {0, 100, 101, 500}

ForksValues == {10, 40}

IssueCounts == {2, 3, 7, 10}

PrCounts == {0, 7, 10}

\* a commit is TRUE when its message contains 'Update TIME.md'
CommitList(n, bots) == [i \in 1..n |-> i <= bots]

CommitSamples ==
    {CommitList(0, 0), CommitList(100, 95), CommitList(50, 45), CommitList(100, 50)}

RECURSIVE StarTimes(_, _, _, _, _)
\* starred_at times (minutes): gaps of a minutes, every m-th gap b minutes
StarTimes(count, a, b, m, out) ==
    IF Len(out) >= count THEN out
    ELSE IF out = <<>> THEN StarTimes(count, a, b, m, <<600>>)
    ELSE StarTimes(count, a, b, m,
                   Append(out, out[Len(out)] + (IF Len(out) % m = 0 THEN b ELSE a)))

StargazerCounts == {0, 5, 11, 20, MaxStargazers}

GapPatterns == {<<5, 5, 1>>, <<5, 9, 2>>, <<5, 20, 2>>, <<5, MaxGap, 7>>}

StargazerLists ==
    {StarTimes(c, g[1], g[2], g[3], <<>>) : c \in StargazerCounts, g \in GapPatterns}

Repo(count, date) == [stargazers_count |-> count, created_at |-> date]

RepoLists ==
    { <<>>,
      <<Repo(60, 1), Repo(80, 2)>>,
      <<Repo(60, 1), Repo(80, 1), Repo(50, 1)>>,
      <<Repo(60, 1), Repo(80, 1), Repo(51, 1)>> }

(***************************************************************************)
(* final.py: analyze_repository                                            *)
(***************************************************************************)
VARIABLES
    script,             \* which script runs: "final" or "interval_clustering"
    pc,                 \* position in the script
    stars, forks, total_issues, total_prs,
    issue_rate, pr_rate, fork_rate,
    commits, bot_ratio,
    stargazers,         \* starred_at of the stargazers response
    intervals_min, max_clusters, clusters, cluster_info, main_cluster_info,
    all_repos,
    evidence_scores, total_score, status, verdict_level,
    outliers,           \* interval_clustering.py: indices with |z| > 2
    minute_ranges,      \* interval_clustering.py: stars near the hour / half hour
    most_common_hours,  \* interval_clustering.py: count of the most common hour
    score, evidence     \* interval_clustering.py: automation score and its evidence

vars == <<script, pc, stars, forks, total_issues, total_prs, issue_rate, pr_rate,
          fork_rate, commits, bot_ratio, stargazers, intervals_min, max_clusters,
          clusters, cluster_info, main_cluster_info, all_repos, evidence_scores,
          total_score, status, verdict_level, outliers, minute_ranges,
          most_common_hours, score, evidence>>

icVars == <<outliers, minute_ranges, most_common_hours, score, evidence>>

repoVars == <<stars, forks>>

rateVars == <<total_issues, total_prs, issue_rate, pr_rate, fork_rate>>

commitVars == <<commits, bot_ratio>>

clusterVars == <<stargazers, intervals_min, max_clusters, clusters, cluster_info,
                 main_cluster_info>>

reportVars == <<total_score, status, verdict_level>>

\* an empty dict
EmptyDict == [x \in {} |-> 0]

\* count / total * 100 if total > 0 else 0
Rate(count, total) ==
    IF total > 0 THEN [num |-> count * 100, den |-> total] ELSE [num |-> 0, den |-> 1]

RateLess(r, k) == r.num < k * r.den

RateGreater(r, k) == r.num > k * r.den

\* mutant: the upper figure of the rubric, above the declared maximum of 30
Evidence1ScoreHigh(rate, nstars) ==
    IF RateLess(rate, 1) /\ nstars > 100 THEN 35
    ELSE IF RateLess(rate, 2) /\ nstars > 100 THEN 15
    ELSE 0

Evidence1Score(rate, nstars) ==
    IF RateLess(rate, 1) /\ nstars > 100 THEN 30
    ELSE IF RateLess(rate, 2) /\ nstars > 100 THEN 15
    ELSE 0

\* mutant: the star condition taken as "at least 100"
Evidence2ScoreAt100(rate, nstars) ==
    IF RateLess(rate, 1) /\ nstars >= 100 THEN 20
    ELSE IF RateLess(rate, 2) /\ nstars >= 100 THEN 10
    ELSE 0

Evidence2Score(rate, nstars) ==
    IF RateLess(rate, 1) /\ nstars > 100 THEN 20
    ELSE IF RateLess(rate, 2) /\ nstars > 100 THEN 10
    ELSE 0

Evidence3Score(rate, nstars) == IF RateLess(rate, 8) /\ nstars > 100 THEN 25 ELSE 0

BotCommits(cs) == Cardinality({i \in DOMAIN cs : cs[i]})

\* mutant: a sample of exactly 100 commits does not count as large
Evidence4ScoreLargeSample(ratio, ncommits) ==
    IF RateGreater(ratio, 80) /\ ncommits > 100 THEN 30
    ELSE IF RateGreater(ratio, 50) THEN 15
    ELSE 0

Evidence4Score(ratio, ncommits) ==
    IF RateGreater(ratio, 80) /\ ncommits > 50 THEN 30
    ELSE IF RateGreater(ratio, 50) THEN 15
    ELSE 0

\* mutant: clustering already runs on eleven stargazers
MinStargazersLow == 20 - 9

\* if len(stargazers) >= 20
MinStargazers == 20

Evidence5Score(main) ==
    IF StdLess(main, 5) /\ main.count >= 10 THEN 50
    ELSE IF StdLess(main, 10) /\ RateGreater(main.percentage, 30) THEN 25
    ELSE 0

\* created_dates[date] = the star counts of the high-star repos created that day
CreatedDates(repos) ==
    LET high == {i \in DOMAIN repos : repos[i].stargazers_count > 50}
    IN  [d \in {repos[i].created_at : i \in high}
            |-> {i \in high : repos[i].created_at = d}]

Evidence6Score(repos) ==
    LET created_dates == CreatedDates(repos)
        bulk_dates == {d \in DOMAIN created_dates : Cardinality(created_dates[d]) >= 2}
    IN  IF bulk_dates # {}
        THEN IF \E d \in DOMAIN created_dates : Cardinality(created_dates[d]) >= 3
             THEN 25 ELSE 10
        ELSE 0

TotalScore(e) ==
    e.issue_rate + e.pr_rate + e.fork_rate + e.bot_commits + e.time_clustering
    + e.bulk_creation

Status(total) ==
    IF total >= 80 THEN "HIGH SUSPICION"
    ELSE IF total >= 40 THEN "MEDIUM SUSPICION"
    ELSE "LOW SUSPICION"

\* report['max_score']
MaxScore == 180

\* max_scores of the score-breakdown panel, in the order of evidence_scores
MaxScores ==
    [issue_rate |-> 30, pr_rate |-> 20, fork_rate |-> 25, bot_commits |-> 30,
     time_clustering |-> 50, bulk_creation |-> 25]

VerdictLevel(total) ==
    IF total >= 100 THEN "CONFIRMED MANIPULATION"
    ELSE IF total >= 60 THEN "HIGH SUSPICION"
    ELSE IF total >= 30 THEN "MEDIUM SUSPICION"
    ELSE "LOW SUSPICION"

\* the scoring table printed in the verdict: the levels its rows give a score
ScoringTable(total) ==
    (IF 0 <= total /\ total <= 30 THEN {"LOW SUSPICION"} ELSE {})
    \cup (IF 31 <= total /\ total <= 60 THEN {"MEDIUM SUSPICION"} ELSE {})
    \cup (IF 61 <= total /\ total <= 100 THEN {"HIGH SUSPICION"} ELSE {})
    \cup (IF total >= 100 THEN {"CONFIRMED MANIPULATION"} ELSE {})

ZeroScores ==
    [issue_rate |-> 0, pr_rate |-> 0, fork_rate |-> 0, bot_commits |-> 0,
     time_clustering |-> 0, bulk_creation |-> 0]

\* every variable the scripts have not assigned yet
Unassigned ==
    /\ stars = 0 /\ forks = 0 /\ total_issues = 0 /\ total_prs = 0
    /\ issue_rate = Rate(0, 0) /\ pr_rate = Rate(0, 0) /\ fork_rate = Rate(0, 0)
    /\ commits = <<>> /\ bot_ratio = Rate(0, 0)
    /\ stargazers = <<>>
    /\ clusters = <<>> /\ cluster_info = EmptyDict /\ main_cluster_info = EmptyDict
    /\ all_repos = <<>>
    /\ evidence_scores = ZeroScores
    /\ total_score = 0 /\ status = "" /\ verdict_level = ""
    /\ outliers = {} /\ minute_ranges = [top |-> 0, half |-> 0]
    /\ most_common_hours = 0 /\ score = 0 /\ evidence = {}

Init ==
    /\ script \in {"final", "interval_clustering"}
    /\ pc = IF script = "final" THEN "fetch_repo" ELSE "ic_fetch"
    /\ intervals_min = <<>> /\ max_clusters = 0
    /\ Unassigned

\* [1/6] the repository request fails: sys.exit(1)
RepoNotFound ==
    /\ script = "final" /\ pc = "fetch_repo"
    /\ pc' = "exit"
    /\ UNCHANGED <<script, repoVars, rateVars, commitVars, clusterVars, all_repos,
                   evidence_scores, reportVars, icVars>>

\* [1/6] stargazers_count and forks_count of the repository
FetchRepoData ==
    /\ script = "final" /\ pc = "fetch_repo"
    /\ \E s \in StarsValues, f \in ForksValues : stars' = s /\ forks' = f
    /\ pc' = "fetch_counts"
    /\ UNCHANGED <<script, rateVars, commitVars, clusterVars, all_repos,
                   evidence_scores, reportVars, icVars>>

\* [2/6] issue and PR counts, the three rates and their evidence scores
FetchIssuesAndPRs ==
    /\ script = "final" /\ pc = "fetch_counts"
    /\ \E i \in IssueCounts, p \in PrCounts :
          /\ total_issues' = i
          /\ total_prs' = p
    /\ issue_rate' = Rate(total_issues', stars)
    /\ pr_rate' = Rate(total_prs', stars)
    /\ fork_rate' = Rate(forks, stars)
    /\ evidence_scores' = [evidence_scores EXCEPT
                              !.issue_rate = Evidence1Score(issue_rate', stars),
                              !.pr_rate = Evidence2Score(pr_rate', stars),
                              !.fork_rate = Evidence3Score(fork_rate', stars)]
    /\ pc' = "commits"
    /\ UNCHANGED <<script, repoVars, commitVars, clusterVars, all_repos, reportVars, icVars>>

\* [3/6] the commit sample and the bot-commit evidence
AnalyzeCommits ==
    /\ script = "final" /\ pc = "commits"
    /\ commits' \in CommitSamples
    /\ bot_ratio' = Rate(BotCommits(commits'), Len(commits'))
    /\ evidence_scores' = [evidence_scores EXCEPT
                              !.bot_commits = Evidence4Score(bot_ratio', Len(commits'))]
    /\ pc' = "clustering"
    /\ UNCHANGED <<script, repoVars, rateVars, clusterVars, all_repos, reportVars, icVars>>

\* [4/6] fewer than 20 stargazers: "Insufficient data"
ClusteringSkipped ==
    /\ script = "final" /\ pc = "clustering"
    /\ stargazers' \in StargazerLists
    /\ ~(Len(stargazers') >= MinStargazers)
    /\ pc' = "bulk"
    /\ UNCHANGED <<script, repoVars, rateVars, commitVars, intervals_min, max_clusters,
                   clusters, cluster_info, main_cluster_info, all_repos,
                   evidence_scores, reportVars, icVars>>

\* [4/6] Ward clustering of the intervals and the time-clustering evidence
TimeClustering ==
    /\ script = "final" /\ pc = "clustering"
    /\ \E sg \in StargazerLists :
        LET X == Intervals(sorted(sg))
            K == MaxClusters(Len(X))
        IN  /\ Len(sg) >= MinStargazers
            /\ stargazers' = sg
            /\ intervals_min' = X
            /\ max_clusters' = K
            /\ IF Len(X) < 2
               THEN \* linkage raises ValueError on fewer than two observations
                    /\ pc' = "raised"
                    /\ UNCHANGED <<clusters, cluster_info, main_cluster_info,
                                   evidence_scores>>
               ELSE \E T \in fcluster(linkage(X), K) :
                    LET info == ClusterInfo(X, T, K)
                    IN  /\ clusters' = T
                        /\ cluster_info' = info
                        /\ IF DOMAIN info = {}
                           THEN \* sorted_clusters[0] raises IndexError
                                /\ pc' = "raised"
                                /\ UNCHANGED <<main_cluster_info, evidence_scores>>
                           ELSE LET main == SortedClusters(info, DOMAIN info)[1].info
                                IN  /\ main_cluster_info' = main
                                    /\ evidence_scores' = [evidence_scores EXCEPT
                                          !.time_clustering = Evidence5Score(main)]
                                    /\ pc' = "bulk"
    /\ UNCHANGED <<script, repoVars, rateVars, commitVars, all_repos, reportVars, icVars>>

\* [5/6] the owner's repositories, the bulk-creation evidence and the total
CheckBulkCreation ==
    /\ script = "final" /\ pc = "bulk"
    /\ all_repos' \in RepoLists
    /\ evidence_scores' = [evidence_scores EXCEPT
                              !.bulk_creation = Evidence6Score(all_repos')]
    /\ total_score' = TotalScore(evidence_scores')
    /\ pc' = "report"
    /\ UNCHANGED <<script, repoVars, rateVars, commitVars, clusterVars, status,
                   verdict_level, icVars>>

\* [6/6] status and the report
SaveReport ==
    /\ script = "final" /\ pc = "report"
    /\ status' = Status(total_score)
    /\ pc' = "verdict"
    /\ UNCHANGED <<script, repoVars, rateVars, commitVars, clusterVars, all_repos,
                   evidence_scores, total_score, verdict_level, icVars>>

\* [8/8] generate_verdict(owner, repo, report)
GenerateVerdict ==
    /\ script = "final" /\ pc = "verdict"
    /\ verdict_level' = VerdictLevel(total_score)
    /\ pc' = "done"
    /\ UNCHANGED <<script, repoVars, rateVars, commitVars, clusterVars, all_repos,
                   evidence_scores, total_score, status, icVars>>

(***************************************************************************)
(* interval_clustering.py: the script, top to bottom                       *)
(***************************************************************************)
IcStargazerCounts == {0, 1, 2, 3, 6, 11, 12, MaxStargazers}

RECURSIVE Reversed(_)
Reversed(s) == IF s = <<>> THEN <<>> ELSE Append(Reversed(Tail(s)), Head(s))

\* the responses of the script's stargazers request (one of them not in time order)
IcStargazerLists ==
    {StarTimes(c, g[1], g[2], g[3], <<>>) : c \in IcStargazerCounts, g \in GapPatterns}
    \cup {Reversed(StarTimes(12, 5, 9, 2, <<>>))}

\* scipy.stats.zscore: (x - mean) / std with the population std; 0/0 is nan.
\* Kept as z^2 = num / den with the deviations scaled by n.
ZScore(X, i) ==
    LET n == Len(X)
        dev == n * X[i] - SeqSum(X)
        nvar == n * SeqSumSq(X) - SeqSum(X) * SeqSum(X)
    IN  [nan |-> nvar = 0 /\ dev = 0, inf |-> nvar = 0 /\ dev # 0,
         num |-> dev * dev, den |-> nvar]

\* mutant: ~(|z| <= k), which is true for nan
AbsGreaterNan(z, k) == z.inf \/ z.nan \/ z.num > k * k * z.den

\* np.abs(z) > k: false for nan
AbsGreater(z, k) == z.inf \/ (~z.nan /\ z.num > k * k * z.den)

\* np.where(z_scores > 2)[0]
Outliers(X) == {i \in 1..Len(X) : AbsGreater(ZScore(X, i), 2)}

Hour(t) == (t \div 60) % 24

Minute(t) == t % 60

\* hour_counter.most_common(5)[0][1]
TopHourCount(times) ==
    LET cnt(h) == Cardinality({i \in DOMAIN times : Hour(times[i]) = h})
    IN  CHOOSE c \in {cnt(h) : h \in 0..23} : \A h \in 0..23 : cnt(h) <= c

MinuteRanges(times) ==
    [top |-> Cardinality({i \in DOMAIN times : 0 <= Minute(times[i]) /\ Minute(times[i]) <= 5}),
     half |-> Cardinality({i \in DOMAIN times : 25 <= Minute(times[i]) /\ Minute(times[i]) <= 35})]

\* mutant: the count threshold of final.py (10) used in the script's rule
MainClusterScoreTen(sorted_clusters) ==
    IF sorted_clusters # <<>>
    THEN LET main_cluster == sorted_clusters[1].info
         IN  IF StdLess(main_cluster, 5) /\ main_cluster.count >= 10 THEN 40
             ELSE IF StdLess(main_cluster, 10) THEN 20
             ELSE 0
    ELSE 0

\* the main-cluster rule of the automation score
MainClusterScore(sorted_clusters) ==
    IF sorted_clusters # <<>>
    THEN LET main_cluster == sorted_clusters[1].info
         IN  IF StdLess(main_cluster, 5) /\ main_cluster.count >= 5 THEN 40
             ELSE IF StdLess(main_cluster, 10) THEN 20
             ELSE 0
    ELSE 0

\* mutant: the rule reads the half-hour window (25-35) instead of the top of the hour
TopOfHourScoreHalf(ranges, ntimes) == IF ranges.half * 10 > 2 * ntimes THEN 30 ELSE 0

\* minute_ranges[top] / len(star_minutes) > 0.2
TopOfHourScore(ranges, ntimes) == IF ranges.top * 10 > 2 * ntimes THEN 30 ELSE 0

\* most_common_hours[0][1] > len(times) * 0.15
HourScore(top_count, ntimes) == IF top_count * 100 > 15 * ntimes THEN 20 ELSE 0

\* len(cluster_info) <= 3
FewClustersScore(info) == IF Cardinality(DOMAIN info) <= 3 THEN 10 ELSE 0

finalVars == <<repoVars, rateVars, commitVars, main_cluster_info, all_repos,
               evidence_scores, reportVars>>

\* the stargazers response, the sorted times and the intervals in minutes
IcFetch ==
    /\ script = "interval_clustering" /\ pc = "ic_fetch"
    /\ \E sg \in IcStargazerLists :
          /\ stargazers' = sg
          /\ intervals_min' = Intervals(sorted(sg))
    /\ pc' = "ic_cluster"
    /\ UNCHANGED <<script, finalVars, max_clusters, clusters, cluster_info, icVars>>

\* hierarchical clustering: linkage, max_clusters, fcluster, cluster_info
IcCluster ==
    /\ script = "interval_clustering" /\ pc = "ic_cluster"
    /\ IF Len(intervals_min) < 2
       THEN \* linkage raises ValueError on fewer than two observations
            /\ pc' = "raised"
            /\ UNCHANGED <<max_clusters, clusters, cluster_info>>
       ELSE LET K == MaxClusters(Len(intervals_min))
            IN  \E T \in fcluster(linkage(intervals_min), K) :
                   /\ max_clusters' = K
                   /\ clusters' = T
                   /\ cluster_info' = ClusterInfo(intervals_min, T, K)
                   /\ pc' = "ic_outliers"
    /\ UNCHANGED <<script, finalVars, stargazers, intervals_min, icVars>>

\* z-score outliers and their share len(outliers) / len(intervals)
IcOutliers ==
    /\ script = "interval_clustering" /\ pc = "ic_outliers"
    /\ outliers' = Outliers(intervals_min)
    /\ pc' = IF Len(intervals_min) = 0 THEN "raised" ELSE "ic_periodicity"
    /\ UNCHANGED <<script, finalVars, clusterVars, minute_ranges, most_common_hours,
                   score, evidence>>

\* hour and minute concentration, count / len(times)
IcPeriodicity ==
    /\ script = "interval_clustering" /\ pc = "ic_periodicity"
    /\ most_common_hours' = TopHourCount(stargazers)
    /\ minute_ranges' = MinuteRanges(stargazers)
    /\ pc' = IF Len(stargazers) = 0 THEN "raised" ELSE "ic_score"
    /\ UNCHANGED <<script, finalVars, clusterVars, outliers, score, evidence>>

\* the automation score and its evidence list
IcScore ==
    /\ script = "interval_clustering" /\ pc = "ic_score"
    /\ LET s1 == MainClusterScore(SortedClusters(cluster_info, DOMAIN cluster_info))
           s2 == TopOfHourScore(minute_ranges, Len(stargazers))
           s3 == HourScore(most_common_hours, Len(stargazers))
           s4 == FewClustersScore(cluster_info)
       IN  /\ score' = s1 + s2 + s3 + s4
           /\ evidence' = (IF s1 > 0 THEN {"main_cluster"} ELSE {})
                          \cup (IF s2 > 0 THEN {"top_of_hour"} ELSE {})
                          \cup (IF s3 > 0 THEN {"hour"} ELSE {})
                          \cup (IF s4 > 0 THEN {"few_clusters"} ELSE {})
    /\ pc' = "ic_done"
    /\ UNCHANGED <<script, finalVars, clusterVars, outliers, minute_ranges,
                   most_common_hours>>

Next ==
    \/ RepoNotFound
    \/ FetchRepoData
    \/ FetchIssuesAndPRs
    \/ AnalyzeCommits
    \/ ClusteringSkipped
    \/ TimeClustering
    \/ CheckBulkCreation
    \/ SaveReport
    \/ GenerateVerdict
    \/ IcFetch
    \/ IcCluster
    \/ IcOutliers
    \/ IcPeriodicity
    \/ IcScore

Spec == Init /\ [][Next]_vars

\* interval_clustering.py alone
InitIC == Init /\ script = "interval_clustering"

NextIC == IcFetch \/ IcCluster \/ IcOutliers \/ IcPeriodicity \/ IcScore

SpecIC == InitIC /\ [][NextIC]_vars

(***************************************************************************)
(* The clustering and the main-cluster rule of interval_clustering.py as   *)
(* functions of an interval series and a cluster count t handed to         *)
(* fcluster (the script itself always hands it min(8, len // 10)).         *)
(***************************************************************************)
\* length of the series enumerated (the ten-interval scenario series is added)
MaxWardLen == 4

WardValues == {0, 1, 5}

WardCounts == {1, 2}

ScenarioB == <<60, 65, 58, 200, 62, 55, 300, 59, 61, 57>>

WardSeries == [1..MaxWardLen -> WardValues] \cup {ScenarioB}

InitWard ==
    /\ script = "clustering_functions"
    /\ pc = "ward_cluster"
    /\ intervals_min \in WardSeries
    /\ max_clusters \in WardCounts
    /\ Unassigned

\* linkage, fcluster(t = max_clusters), cluster_info
WardCluster ==
    /\ script = "clustering_functions" /\ pc = "ward_cluster"
    /\ \E T \in fcluster(linkage(intervals_min), max_clusters) :
          /\ clusters' = T
          /\ cluster_info' = ClusterInfo(intervals_min, T, max_clusters)
    /\ pc' = "ward_score"
    /\ UNCHANGED <<script, finalVars, stargazers, intervals_min, max_clusters, icVars>>

\* the main-cluster rule on the largest cluster
WardScore ==
    /\ script = "clustering_functions" /\ pc = "ward_score"
    /\ score' = MainClusterScore(SortedClusters(cluster_info, DOMAIN cluster_info))
    /\ pc' = "ward_done"
    /\ UNCHANGED <<script, finalVars, clusterVars, outliers, minute_ranges,
                   most_common_hours, evidence>>

NextWard == WardCluster \/ WardScore

SpecWard == InitWard /\ [][NextWard]_vars

(***************************************************************************)
(* Properties                                                              *)
(***************************************************************************)
\* analyze_repository has left the clustering step / has computed the total
PastClustering == script = "final" /\ pc \in {"bulk", "report", "verdict", "done"}

Scored == script = "final" /\ pc \in {"report", "verdict", "done"}

\* the interval_clustering.py script has left the clustering section
IcPastClustering ==
    script = "interval_clustering"
    /\ pc \in {"ic_outliers", "ic_periodicity", "ic_score", "ic_done"}

SumOfScores ==
    evidence_scores.issue_rate + evidence_scores.pr_rate + evidence_scores.fork_rate
    + evidence_scores.bot_commits + evidence_scores.time_clustering
    + evidence_scores.bulk_creation

\* C1: every evidence score of analyze_repository lies between 0 and its declared
\* maximum (30, 20, 25, 30, 50, 25); the reported suspicion_score is the sum of the
\* six scores and never exceeds max_score = 180.
C1_ScoresWithinMaxima ==
    script = "final" =>
        /\ \A k \in DOMAIN MaxScores :
              0 <= evidence_scores[k] /\ evidence_scores[k] <= MaxScores[k]
        /\ Scored => (total_score = SumOfScores /\ total_score <= MaxScore)

\* all six signals at their maximum
C1_Witness == Scored /\ pc = "done" /\ total_score = MaxScore

C3_ScenarioC ==
    (/\ Scored
     /\ stars = 500
     /\ forks * 100 = 2 * stars
     /\ total_issues * 100 < stars
     /\ Len(commits) = 100 /\ BotCommits(commits) = 95)
    => /\ evidence_scores.issue_rate = 30
       /\ evidence_scores.fork_rate = 25
       /\ evidence_scores.bot_commits = 30
       /\ (evidence_scores.pr_rate = 0 /\ evidence_scores.time_clustering = 0
           /\ evidence_scores.bulk_creation = 0) => total_score = 85

C3_Witness ==
    /\ Scored /\ pc = "done"
    /\ stars = 500 /\ forks = 10 /\ total_issues \in {2, 3}
    /\ Len(commits) = 100 /\ BotCommits(commits) = 95
    /\ evidence_scores.pr_rate = 0 /\ evidence_scores.time_clustering = 0
    /\ evidence_scores.bulk_creation = 0
    /\ total_score = 85

\* C4 as stated: with stars <= 100 each of the six evidence scores is 0.
C4_AllSignalsNeedStars ==
    (Scored /\ stars <= 100) => \A k \in DOMAIN MaxScores : evidence_scores[k] = 0

\* C4 amended: with stars <= 100 the issue-rate, PR-rate and fork-rate scores
\* are 0; the other three scores are not conditioned on the star count.
C4_RateSignalsNeedStars ==
    (script = "final" /\ stars <= 100)
    => /\ evidence_scores.issue_rate = 0
       /\ evidence_scores.pr_rate = 0
       /\ evidence_scores.fork_rate = 0

\* exactly 100 stars, no PR at all, and a bot-commit score all the same
C4_Witness ==
    /\ Scored /\ pc = "done"
    /\ stars = 100 /\ total_prs = 0 /\ forks = 10
    /\ evidence_scores.pr_rate = 0
    /\ evidence_scores.bot_commits = 30
    /\ evidence_scores.time_clustering = 50
    /\ evidence_scores.bulk_creation = 25

\* C5: with fewer than 20 star timestamps analyze_repository does not raise, the
\* time-clustering score is 0 and the main-cluster record is empty; the other
\* five scores are those of the other inputs and the total is their sum.
C5_ClusteringSkipped ==
    (script = "final" /\ pc \in {"bulk", "report", "verdict", "done", "raised"}
     /\ Len(stargazers) < 20)
    => /\ pc # "raised"
       /\ evidence_scores.time_clustering = 0
       /\ DOMAIN main_cluster_info = {}
       /\ evidence_scores.issue_rate = Evidence1Score(Rate(total_issues, stars), stars)
       /\ evidence_scores.pr_rate = Evidence2Score(Rate(total_prs, stars), stars)
       /\ evidence_scores.fork_rate = Evidence3Score(Rate(forks, stars), stars)
       /\ evidence_scores.bot_commits =
             Evidence4Score(Rate(BotCommits(commits), Len(commits)), Len(commits))
       /\ Scored =>
             /\ evidence_scores.bulk_creation = Evidence6Score(all_repos)
             /\ total_score = evidence_scores.issue_rate + evidence_scores.pr_rate
                              + evidence_scores.fork_rate + evidence_scores.bot_commits
                              + evidence_scores.bulk_creation

\* five timestamps, and the other five signals all fire
C5_Witness ==
    /\ Scored /\ pc = "done"
    /\ Len(stargazers) = 5
    /\ total_score = 130

\* C6: no rate or percentage computation raises: rates are 0 with no stars, the
\* bot ratio is 0 with no commits, and with no timestamps or no intervals the
\* scripts go on with a fallback value.
C6_NoDivisionRaises ==
    /\ (script = "final" /\ pc # "fetch_repo" /\ pc # "fetch_counts" /\ stars = 0)
       => (issue_rate.num = 0 /\ pr_rate.num = 0 /\ fork_rate.num = 0)
    /\ (script = "final" /\ pc \in {"clustering", "bulk", "report", "verdict", "done"}
        /\ Len(commits) = 0) => bot_ratio.num = 0
    /\ (pc # "ic_fetch" /\ (Len(stargazers) = 0 \/ Len(intervals_min) = 0))
       => pc # "raised"

\* C7: the verdict level of generate_verdict is a level the scoring table of the
\* same document gives the total score.
C7_VerdictMatchesTable ==
    (script = "final" /\ pc = "done") => verdict_level \in ScoringTable(total_score)

\* every gap between consecutive stargazers is g minutes
ConstantGaps(sg, g) == \A i \in 1..(Len(sg) - 1) : sg[i + 1] - sg[i] = g

\* C8 as stated: ten gaps of exactly 5 minutes give one cluster with count 10,
\* mean 5, std 0 and a time-clustering score of 50.
C8_TenGaps ==
    (PastClustering /\ Len(stargazers) = 11 /\ ConstantGaps(stargazers, 5))
    => /\ evidence_scores.time_clustering = 50
       /\ DOMAIN main_cluster_info # {}
       /\ main_cluster_info.count = 10

\* C8 amended: with at least 20 timestamps whose gaps are all 5 minutes there is
\* one cluster holding every gap, with mean 5 and std 0, and the time-clustering
\* score is 50; with ten gaps (11 timestamps) the step is skipped and scores 0.
C8_ConstantGaps ==
    /\ (PastClustering /\ Len(stargazers) >= 20 /\ ConstantGaps(stargazers, 5))
       => /\ DOMAIN cluster_info = {1}
          /\ main_cluster_info.count = Len(stargazers) - 1
          /\ main_cluster_info.mean.num = 5 * main_cluster_info.mean.den
          /\ main_cluster_info.var.num = 0
          /\ evidence_scores.time_clustering = 50
    /\ (PastClustering /\ Len(stargazers) = 11 /\ ConstantGaps(stargazers, 5))
       => /\ evidence_scores.time_clustering = 0
          /\ DOMAIN main_cluster_info = {}

C8_Witness ==
    /\ PastClustering /\ pc = "done"
    /\ Len(stargazers) = 20 /\ ConstantGaps(stargazers, 5)
    /\ max_clusters = 1
    /\ evidence_scores.time_clustering = 50

IsConstant(X) == \A i, j \in 1..Len(X) : X[i] = X[j]

\* C10: on a constant interval sequence (std = 0) the z-score outlier detection
\* of interval_clustering.py reports no outlier and does not raise.
C10_ConstantNoOutliers ==
    /\ (script = "interval_clustering"
        /\ pc \in {"ic_periodicity", "ic_score", "ic_done"}
        /\ IsConstant(intervals_min)) => outliers = {}
    /\ (script = "interval_clustering" /\ pc = "raised") => Len(intervals_min) < 2

\* twenty equal intervals went through the detection
C10_Witness ==
    /\ script = "interval_clustering" /\ pc = "ic_done"
    /\ Len(intervals_min) = 20 /\ IsConstant(intervals_min)
    /\ outliers = {}

\* the suspicion band a verdict level denotes (CONFIRMED MANIPULATION counts as high)
VerdictBand(level) ==
    IF level = "CONFIRMED MANIPULATION" THEN "HIGH SUSPICION" ELSE level

\* C14: for every total score the status stored in the report and the verdict
\* level generate_verdict derives from the same total denote the same band: status
\* HIGH exactly when the level is HIGH or CONFIRMED, MEDIUM exactly when MEDIUM,
\* LOW exactly when LOW.
C14_StatusMatchesVerdict ==
    (script = "final" /\ pc = "done") => status = VerdictBand(verdict_level)

\* the points the automation score holds beyond its main-cluster, hour and
\* few-clusters rules: what the boundary-concentration rule added
BoundaryGain ==
    score - MainClusterScore(SortedClusters(cluster_info, DOMAIN cluster_info))
          - HourScore(most_common_hours, Len(stargazers))
          - FewClustersScore(cluster_info)

IcScored == script = "interval_clustering" /\ pc = "ic_done"

\* C13 as stated: the boundary-concentration signal follows the near-half-hour
\* window: with more than 20% of the timestamps at minute 25..35 the score gains
\* between 10 and 30 points, and with at most 20% it gains nothing from the signal.
C13_HalfHourDrivesScore ==
    IcScored =>
        IF minute_ranges.half * 5 > Len(stargazers)
        THEN BoundaryGain \in 10..30
        ELSE BoundaryGain = 0

\* C13, amended: the boundary-concentration signal follows the top-of-hour window:
\* with more than 20% of the timestamps at minute 0..5 the score gains exactly 30
\* points and the evidence list names the signal, with at most 20% it gains
\* nothing, whatever the share at minute 25..35 is.
C13_TopOfHourDrivesScore ==
    IcScored =>
        IF minute_ranges.top * 5 > Len(stargazers)
        THEN BoundaryGain = 30 /\ "top_of_hour" \in evidence
        ELSE BoundaryGain = 0 /\ "top_of_hour" \notin evidence

\* a scored run with more than 20% of the timestamps near the half hour, at most
\* 20% at the top of the hour, and no boundary points
C13_Witness ==
    /\ IcScored
    /\ minute_ranges.half * 5 > Len(stargazers)
    /\ minute_ranges.top * 5 <= Len(stargazers)
    /\ BoundaryGain = 0

\* the points the automation score holds beyond its two time-of-day rules: what
\* the cluster rules (main cluster, few clusters) added
ClusterGain ==
    score - TopOfHourScore(minute_ranges, Len(stargazers))
          - HourScore(most_common_hours, Len(stargazers))

\* C11: when interval_clustering.py computes a cluster count of 0 (fewer than 10
\* intervals) the clustering is skipped: no cluster record and no cluster-derived
\* evidence is recorded, and the cluster signals add 0 points to the score.
C11_ZeroClustersAddNothing ==
    (IcScored /\ max_clusters = 0) =>
        /\ DOMAIN cluster_info = {}
        /\ "main_cluster" \notin evidence
        /\ "few_clusters" \notin evidence
        /\ ClusterGain = 0

\* a clustering with max_clusters >= 1 has run (either script)
Clustered ==
    \/ PastClustering /\ Len(stargazers) >= MinStargazers
    \/ IcPastClustering /\ max_clusters >= 1

\* the flat-cluster labels fcluster gave the intervals
Labels == {clusters[i] : i \in 1..Len(intervals_min)}

\* C12 as stated: whenever clustering runs with K = min(8, n // 10) >= 1, the
\* maxclust cut yields exactly K non-empty flat clusters and the cluster summary
\* holds exactly K records.
C12_ExactlyKClusters ==
    Clustered =>
        /\ Cardinality(Labels) = max_clusters
        /\ Cardinality(DOMAIN cluster_info) = max_clusters

\* C12, amended: whenever clustering runs with K >= 1, the maxclust cut yields at
\* least one and at most K flat clusters, labelled within 1..K, each recorded with
\* a count of at least 1, so the summary holds between 1 and K records; when all
\* intervals are equal it holds exactly one record.
C12_AtMostKClusters ==
    Clustered =>
        /\ Labels = DOMAIN cluster_info
        /\ Labels \subseteq 1..max_clusters
        /\ Cardinality(Labels) >= 1
        /\ \A c \in DOMAIN cluster_info : cluster_info[c].count >= 1
        /\ IsConstant(intervals_min) => Cardinality(DOMAIN cluster_info) = 1

\* two clusters asked for on equal intervals, one cluster recorded
C12_Witness ==
    /\ Clustered
    /\ max_clusters = 2
    /\ IsConstant(intervals_min)
    /\ Cardinality(DOMAIN cluster_info) = 1
====
